---- MODULE Spec2Model ----
(***************************************************************************)
(* Model of cloud9/plugins-client/ext.compile/round1.py: the script that   *)
(* scans test.java for parentheses and braces (checkFile), compiles the    *)
(* file named on the command line (checkCompile), folds the compiler's     *)
(* error count into the student's record (updateEPC) and hands the record  *)
(* to the persistence module (dbq.updateLDScore).                          *)
(*                                                                         *)
(* Python floats are modelled as exact fractions <<n, d>> in lowest terms  *)
(* with d > 0; None is modelled as the empty tuple <<>>.                   *)
(***************************************************************************)
EXTENDS Integers, Sequences, FiniteSets, TLC

(***************************************************************************)
(* Bounds of the model.                                                    *)
(***************************************************************************)
MaxLines == 2        \* lines the file reader delivers before end of file
MaxLineLen == 3      \* characters of one line
MaxTokens == 2       \* whitespace-separated tokens of the compiler's stderr
MaxTok == 1          \* largest number a token of stderr spells
MaxErr == 5          \* largest error count of the accumulation specification
MaxE0 == 1           \* largest compileTE of the stored record
MaxT0 == 1           \* largest compileT of the stored record
MaxCalls == 3        \* updateEPC calls of the accumulation specification

error_weight == 2

VARIABLES
  pc,          \* position of the script (or of the call in progress)
  err,         \* the uncaught exception that ended the run, "none" otherwise
  errAt,       \* the step that raised it
  f,           \* the module-level file object: [state, eof, nread]
  oparen, obracket, cparen, cbracket,   \* the module-level lists
  data,        \* the record read from and handed to the persistence module
  db,          \* the record the persistence module holds
  bSP, bFP, pSP, pFP,                   \* locals of checkFile
  bracket_score, paren_score,           \* locals of checkFile
  totalBPairs, totalPPairs, pSR, bSR,   \* locals of checkFile
  score,       \* line 129
  cEPC,        \* line 133
  syntaxScore, \* line 136
  handed,      \* the argument of dbq.updateLDScore, <<>> before the call
  \* history variables
  trace,       \* the collaborators and functions called, in call order
  nOP, nCP, nOB, nCB,  \* tokens the current checkFile call read from the file
  inOP, inCP, inOB, inCB, \* lengths of the lists when the call started
  results,     \* outcome of every finished checkFile call
  db0,         \* the stored record when the run started
  cfReturned, ccReturned, \* checkFile / checkCompile returned normally
  lastErrArg,  \* argument of the last updateEPC call
  E0, T0, sumE, nEPC  \* accumulation history of updateEPC

vars == << pc, err, errAt, f, oparen, obracket, cparen, cbracket, data, db,
           bSP, bFP, pSP, pFP, bracket_score, paren_score, totalBPairs,
           totalPPairs, pSR, bSR, score, cEPC, syntaxScore, handed, trace,
           nOP, nCP, nOB, nCB, inOP, inCP, inOB, inCB, results, db0,
           cfReturned, ccReturned, lastErrArg, E0, T0, sumE, nEPC >>

stacks == << oparen, obracket, cparen, cbracket >>
cfLocals == << bSP, bFP, pSP, pFP, bracket_score, paren_score, totalBPairs,
               totalPPairs, pSR, bSR >>
counts == << nOP, nCP, nOB, nCB >>
inCounts == << inOP, inCP, inOB, inCB >>
epcHist == << lastErrArg, E0, T0, sumE, nEPC >>

None == << >>

(***************************************************************************)
(* Fractions: float(a)/b and the arithmetic of line 136.                   *)
(***************************************************************************)
Abs(x) == IF x < 0 THEN -x ELSE x

RECURSIVE Gcd(_, _)
Gcd(a, b) == IF b = 0 THEN a ELSE Gcd(b, a % b)

Norm(n, d) ==
  LET g == Gcd(Abs(n), Abs(d))
      s == IF d < 0 THEN -1 ELSE 1
  IN  << (s * n) \div g, (s * d) \div g >>

Zero == << 0, 1 >>
One == << 1, 1 >>

\* the division without float(): Python 2 floors the quotient of two ints
FloorDiv(a, b) == << a \div b, 1 >>

\* float(a)/b for b # 0
FloatDiv(a, b) == Norm(a, b)

Min(a, b) == IF a <= b THEN a ELSE b
Max(a, b) == IF a >= b THEN a ELSE b

(***************************************************************************)
(* The text of the file and of the compiler's stderr.                      *)
(***************************************************************************)
\* "x" stands for every character that is none of the four delimiters
Chars == { "(", ")", "{", "}", "x" }

SeqsUpTo(S, n) == UNION { [1..k -> S] : k \in 0..n }

\* a line read from a file is never empty
Lines == SeqsUpTo(Chars, MaxLineLen) \ { << >> }

Count(line, ch) == Cardinality({ i \in DOMAIN line : line[i] = ch })

\* a token of stderr: a decimal numeral (num, with its value) or another word
Tokens == { [num |-> TRUE, val |-> v] : v \in -1..MaxTok }
            \cup { [num |-> FALSE, val |-> 0] }

\* stderr: the empty string, or text that splits into its tokens
\* (text of blanks only splits into no token)
ErrorTexts == { [empty |-> TRUE, toks |-> << >>] }
                \cup { [empty |-> FALSE, toks |-> t] : t \in SeqsUpTo(Tokens, MaxTokens) }

(***************************************************************************)
(* checkFile, lines 30-91.                                                 *)
(***************************************************************************)
\* lines 37-44: one character appended to its list
Classify(ch, st) ==
  IF ch = "{" THEN [st EXCEPT !.obracket = Append(@, "{")]
  ELSE IF ch = "(" THEN [st EXCEPT !.oparen = Append(@, "(")]
  ELSE IF ch = "}" THEN [st EXCEPT !.cbracket = Append(@, "}")]
  ELSE IF ch = ")" THEN [st EXCEPT !.cparen = Append(@, ")")]
  ELSE st

\* line 36: for i in range(len(line))
RECURSIVE ScanFrom(_, _, _)
ScanFrom(line, i, st) ==
  IF i > Len(line) THEN st ELSE ScanFrom(line, i + 1, Classify(line[i], st))

\* list.pop()
Pop(s) == SubSeq(s, 1, Len(s) - 1)

\* lines 50-57 and 66-73: for x in range(len(open)), the range fixed at n
\* before the first iteration; break as soon as one list is empty
RECURSIVE MatchFrom(_, _, _, _, _, _)
MatchFrom(open, close, x, n, sp, sc) ==
  IF x >= n THEN [open |-> open, close |-> close, sp |-> sp, sc |-> sc]
  ELSE IF Len(open) = 0 \/ Len(close) = 0
       THEN [open |-> open, close |-> close, sp |-> sp, sc |-> sc + error_weight]
       ELSE MatchFrom(Pop(open), Pop(close), x + 1, n, sp + 1, sc)

\* the range one short
MatchLoopShort(open, close) == MatchFrom(open, close, 0, Len(open) - 1, 0, 0)

MatchLoop(open, close) == MatchFrom(open, close, 0, Len(open), 0, 0)

\* only the opens left over
LeftoverOpens(open, close) == Len(open)

\* lines 60 and 74: the failed pairings
Leftover(open, close) == Len(open) + Len(close)

\* every token counted: a successful pairing counted as its two tokens
TotalTokens(fp, sp) == fp + 2 * sp

\* lines 77-78
TotalPairs(fp, sp) == fp + sp

(***************************************************************************)
(* checkCompile and parseErrorMessage, lines 94-112.                       *)
(***************************************************************************)
\* error.split()[len(error.split())-2] with Python's indexing: a negative
\* index counts from the end, an index outside the list raises IndexError.
\* The result is [ok, val, exc].
ParseErrorMessage(toks) ==
  LET n == Len(toks)
      i == n - 2
      j == IF i < 0 THEN i + n ELSE i
  IN  IF j < 0 \/ j >= n
      THEN [ok |-> FALSE, val |-> 0, exc |-> "IndexError"]
      ELSE IF toks[j + 1].num
           THEN [ok |-> TRUE, val |-> toks[j + 1].val, exc |-> "none"]
           ELSE [ok |-> FALSE, val |-> 0, exc |-> "ValueError"]

(***************************************************************************)
(* updateEPC, lines 117-121.                                               *)
(***************************************************************************)
\* the total overwritten instead of accumulated
CompileTEOverwrite(c, d) == c
CompileTE(c, d) == d.compileTE + c
CompileT(d) == d.compileT + 1

updateEPC(c, d) ==
  LET d1 == [d EXCEPT !.compileTE = CompileTE(c, d)]
      d2 == [d1 EXCEPT !.compileT = CompileT(d1)]
  IN  [d2 EXCEPT !.EPC = FloatDiv(d2.compileTE, d2.compileT)]

\* line 136
WeightedScore(s) ==
  Norm(s[1][1] * s[2][2] + s[2][1] * s[1][2], 4 * s[1][2] * s[2][2])

(***************************************************************************)
(* The stored record.                                                      *)
(***************************************************************************)
StoredEPC(te, t) == IF t = 0 THEN Zero ELSE FloatDiv(te, t)

Records ==
  { [compileTE |-> te, compileT |-> t, EPC |-> StoredEPC(te, t),
     pSR |-> Zero, bSR |-> Zero] : te \in 0..MaxE0, t \in 0..MaxT0 }

\* what dbq.getCurrentLDValues returns
getCurrentLDValues == db

\* what the persistence module holds after dbq.updateLDScore(d)
updateLDScore(d) == d

(***************************************************************************)
(* Initial state: the interpreter is about to run line 5.                  *)
(***************************************************************************)
InitCommon ==
  /\ err = "none" /\ errAt = "none"
  /\ f = [state |-> "unopened", eof |-> FALSE, nread |-> 0]
  /\ oparen = << >> /\ obracket = << >> /\ cparen = << >> /\ cbracket = << >>
  /\ bSP = 0 /\ bFP = 0 /\ pSP = 0 /\ pFP = 0
  /\ bracket_score = 0 /\ paren_score = 0
  /\ totalBPairs = 0 /\ totalPPairs = 0 /\ pSR = None /\ bSR = None
  /\ score = None /\ cEPC = 0 /\ syntaxScore = None /\ handed = None
  /\ trace = << >>
  /\ nOP = 0 /\ nCP = 0 /\ nOB = 0 /\ nCB = 0
  /\ inOP = 0 /\ inCP = 0 /\ inOB = 0 /\ inCB = 0
  /\ results = << >>
  /\ cfReturned = FALSE /\ ccReturned = FALSE
  /\ lastErrArg = 0 /\ sumE = 0 /\ nEPC = 0

Init ==
  /\ InitCommon
  /\ pc = "argv"
  /\ db \in Records /\ db0 = db
  /\ data = None
  /\ E0 = db.compileTE /\ T0 = db.compileT

\* a handler that records the exception and persists the record anyway
RaiseAndPersist(e, at) == pc' = "updateLDScore" /\ err' = e /\ errAt' = at

\* an uncaught exception ends the run
Raise(e, at) == pc' = "failed" /\ err' = e /\ errAt' = at

NoRaise == UNCHANGED << err, errAt >>

(***************************************************************************)
(* The script, one action per statement.                                   *)
(***************************************************************************)
\* line 5: filename = sys.argv[1]
ReadArgv ==
  /\ pc = "argv"
  /\ \E given \in BOOLEAN :
       IF given THEN pc' = "open" /\ NoRaise
                ELSE Raise("IndexError", "argv")
  /\ UNCHANGED << f, stacks, data, db, cfLocals, score, cEPC, syntaxScore,
                  handed, trace, counts, inCounts, results, db0, cfReturned,
                  ccReturned, epcHist >>

\* line 7: f = open("test.java","r")
OpenFile ==
  /\ pc = "open"
  /\ trace' = Append(trace, "open")
  /\ \E exists \in BOOLEAN :
       IF exists
       THEN /\ f' = [state |-> "open", eof |-> FALSE, nread |-> 0]
            /\ pc' = "globals" /\ NoRaise
       ELSE /\ Raise("IOError", "open") /\ UNCHANGED f
  /\ UNCHANGED << stacks, data, db, cfLocals, score, cEPC, syntaxScore,
                  handed, counts, inCounts, results, db0, cfReturned,
                  ccReturned, epcHist >>

\* lines 9-13
InitGlobals ==
  /\ pc = "globals"
  /\ oparen' = << >> /\ obracket' = << >> /\ cparen' = << >> /\ cbracket' = << >>
  /\ pc' = "getdata"
  /\ UNCHANGED << err, errAt, f, data, db, cfLocals, score, cEPC, syntaxScore,
                  handed, trace, counts, inCounts, results, db0, cfReturned,
                  ccReturned, epcHist >>

\* line 126: data = dbq.getCurrentLDValues()
GetData ==
  /\ pc = "getdata"
  /\ trace' = Append(trace, "getCurrentLDValues")
  /\ data' = getCurrentLDValues
  /\ pc' = "checkFile"
  /\ UNCHANGED << err, errAt, f, stacks, db, cfLocals, score, cEPC,
                  syntaxScore, handed, counts, inCounts, results, db0,
                  cfReturned, ccReturned, epcHist >>

\* entry of checkFile: the history of the call starts
EnterCheckFile ==
  /\ trace' = Append(trace, "checkFile")
  /\ nOP' = 0 /\ nCP' = 0 /\ nOB' = 0 /\ nCB' = 0
  /\ pc' = "scan"

\* line 129: score = checkFile(f,oparen,obracket,cparen,cbracket,data)
CallCheckFile ==
  /\ pc = "checkFile"
  /\ EnterCheckFile
  /\ inOP' = Len(oparen) /\ inCP' = Len(cparen)
  /\ inOB' = Len(obracket) /\ inCB' = Len(cbracket)
  /\ UNCHANGED << err, errAt, f, stacks, data, db, cfLocals, score, cEPC,
                  syntaxScore, handed, results, db0, cfReturned, ccReturned,
                  epcHist >>

\* lines 34-44, one iteration of "for line in f": the module-level f (not
\* the parameter) delivers its next line
ScanLine ==
  /\ pc = "scan"
  /\ f.state = "open" /\ ~f.eof /\ f.nread < MaxLines
  /\ \E line \in Lines :
       LET st == ScanFrom(line, 1, [oparen |-> oparen, obracket |-> obracket,
                                    cparen |-> cparen, cbracket |-> cbracket])
       IN  /\ oparen' = st.oparen /\ obracket' = st.obracket
           /\ cparen' = st.cparen /\ cbracket' = st.cbracket
           /\ nOP' = nOP + Count(line, "(") /\ nCP' = nCP + Count(line, ")")
           /\ nOB' = nOB + Count(line, "{") /\ nCB' = nCB + Count(line, "}")
  /\ f' = [f EXCEPT !.nread = @ + 1]
  /\ UNCHANGED << pc, err, errAt, data, db, cfLocals, score, cEPC,
                  syntaxScore, handed, trace, inCounts, results, db0,
                  cfReturned, ccReturned, epcHist >>

\* the file is exhausted: the loop of line 34 ends, and f stays at its end
ScanEOF ==
  /\ pc = "scan"
  /\ f.state = "open"
  /\ f' = [f EXCEPT !.eof = TRUE]
  /\ pc' = "matchB"
  /\ UNCHANGED << err, errAt, stacks, data, db, cfLocals, score, cEPC,
                  syntaxScore, handed, trace, counts, inCounts, results, db0,
                  cfReturned, ccReturned, epcHist >>

\* lines 47-60
MatchBrackets ==
  /\ pc = "matchB"
  /\ LET m == MatchLoop(obracket, cbracket)
     IN  /\ obracket' = m.open /\ cbracket' = m.close
         /\ bSP' = m.sp /\ bracket_score' = m.sc
         /\ bFP' = Leftover(m.open, m.close)
  /\ pc' = "matchP"
  /\ UNCHANGED << err, errAt, f, oparen, cparen, data, db, pSP, pFP,
                  paren_score, totalBPairs, totalPPairs, pSR, bSR, score,
                  cEPC, syntaxScore, handed, trace, counts, inCounts, results,
                  db0, cfReturned, ccReturned, epcHist >>

\* lines 63-74
MatchParens ==
  /\ pc = "matchP"
  /\ LET m == MatchLoop(oparen, cparen)
     IN  /\ oparen' = m.open /\ cparen' = m.close
         /\ pSP' = m.sp /\ paren_score' = m.sc
         /\ pFP' = Leftover(m.open, m.close)
  /\ pc' = "totals"
  /\ UNCHANGED << err, errAt, f, obracket, cbracket, data, db, bSP, bFP,
                  bracket_score, totalBPairs, totalPPairs, pSR, bSR, score,
                  cEPC, syntaxScore, handed, trace, counts, inCounts, results,
                  db0, cfReturned, ccReturned, epcHist >>

\* lines 77-78
Totals ==
  /\ pc = "totals"
  /\ totalBPairs' = TotalPairs(bFP, bSP)
  /\ totalPPairs' = TotalPairs(pFP, pSP)
  /\ pc' = "rateP"
  /\ UNCHANGED << err, errAt, f, stacks, data, db, bSP, bFP, pSP, pFP,
                  bracket_score, paren_score, pSR, bSR, score, cEPC,
                  syntaxScore, handed, trace, counts, inCounts, results, db0,
                  cfReturned, ccReturned, epcHist >>

\* an exception leaves checkFile
RaiseInCheckFile(e, at) ==
  /\ Raise(e, at)
  /\ results' = Append(results, [ok |-> FALSE, val |-> None, exc |-> e])

\* line 81: pSR = float(pSP)/totalPPairs
RateParens ==
  /\ pc = "rateP"
  /\ IF totalPPairs = 0
     THEN RaiseInCheckFile("ZeroDivisionError", "rateP") /\ UNCHANGED pSR
     ELSE /\ pSR' = FloatDiv(pSP, totalPPairs)
          /\ pc' = "rateB" /\ NoRaise /\ UNCHANGED results
  /\ UNCHANGED << f, stacks, data, db, bSP, bFP, pSP, pFP, bracket_score,
                  paren_score, totalBPairs, totalPPairs, bSR, score, cEPC,
                  syntaxScore, handed, trace, counts, inCounts, db0,
                  cfReturned, ccReturned, epcHist >>

\* line 82: bSR = float(bSP)/totalBPairs
RateBrackets ==
  /\ pc = "rateB"
  /\ IF totalBPairs = 0
     THEN RaiseInCheckFile("ZeroDivisionError", "rateB") /\ UNCHANGED bSR
     ELSE /\ bSR' = FloatDiv(bSP, totalBPairs)
          /\ pc' = "return" /\ NoRaise /\ UNCHANGED results
  /\ UNCHANGED << f, stacks, data, db, bSP, bFP, pSP, pFP, bracket_score,
                  paren_score, totalBPairs, totalPPairs, pSR, score, cEPC,
                  syntaxScore, handed, trace, counts, inCounts, db0,
                  cfReturned, ccReturned, epcHist >>

\* line 91 and the assignment of line 129
ReturnCheckFile ==
  /\ pc = "return"
  /\ score' = << pSR, bSR >>
  /\ results' = Append(results, [ok |-> TRUE, val |-> << pSR, bSR >>, exc |-> "none"])
  /\ cfReturned' = TRUE
  /\ pc' = "close"
  /\ UNCHANGED << err, errAt, f, stacks, data, db, cfLocals, cEPC,
                  syntaxScore, handed, trace, counts, inCounts, db0,
                  ccReturned, epcHist >>

\* line 130: f.close()
CloseFile ==
  /\ pc = "close"
  /\ f' = [f EXCEPT !.state = "closed"]
  /\ pc' = "checkCompile"
  /\ UNCHANGED << err, errAt, stacks, data, db, cfLocals, score, cEPC,
                  syntaxScore, handed, trace, counts, inCounts, results, db0,
                  cfReturned, ccReturned, epcHist >>

\* line 133: cEPC = checkCompile(filename,data); the compiler's stderr is
\* whatever the external process wrote
CheckCompile ==
  /\ pc = "checkCompile"
  /\ trace' = Append(trace, "checkCompile")
  /\ \E error \in ErrorTexts :
       IF error.empty
       THEN cEPC' = 0 /\ ccReturned' = TRUE /\ pc' = "syntaxScore" /\ NoRaise
       ELSE LET r == ParseErrorMessage(error.toks)
            IN  IF r.ok
                THEN /\ cEPC' = 0 + r.val /\ ccReturned' = TRUE
                     /\ pc' = "syntaxScore" /\ NoRaise
                ELSE Raise(r.exc, "checkCompile") /\ UNCHANGED << cEPC, ccReturned >>
  /\ UNCHANGED << f, stacks, data, db, cfLocals, score, syntaxScore, handed,
                  counts, inCounts, results, db0, cfReturned, epcHist >>

\* line 136: syntaxScore = (score[0]*.25) +(score[1]*.25)
SyntaxScore ==
  /\ pc = "syntaxScore"
  /\ syntaxScore' = WeightedScore(score)
  /\ pc' = "updateEPC"
  /\ UNCHANGED << err, errAt, f, stacks, data, db, cfLocals, score, cEPC,
                  handed, trace, counts, inCounts, results, db0, cfReturned,
                  ccReturned, epcHist >>

\* one call of updateEPC on the record, with its history
CallUpdateEPC(c) ==
  /\ data' = updateEPC(c, data)
  /\ lastErrArg' = c /\ sumE' = sumE + c /\ nEPC' = nEPC + 1
  /\ UNCHANGED << E0, T0 >>

\* line 147: data = updateEPC(cEPC,data)
UpdateEPC ==
  /\ pc = "updateEPC"
  /\ trace' = Append(trace, "updateEPC")
  /\ CallUpdateEPC(cEPC)
  /\ pc' = "updateLDScore"
  /\ UNCHANGED << err, errAt, f, stacks, db, cfLocals, score, cEPC,
                  syntaxScore, handed, counts, inCounts, results, db0,
                  cfReturned, ccReturned >>

\* line 149: dbq.updateLDScore(data); the persistence module stores the
\* record it is given
UpdateLDScore ==
  /\ pc = "updateLDScore"
  /\ trace' = Append(trace, "updateLDScore")
  /\ handed' = data
  /\ db' = updateLDScore(data)
  /\ pc' = "done"
  /\ UNCHANGED << err, errAt, f, stacks, data, cfLocals, score, cEPC,
                  syntaxScore, counts, inCounts, results, db0, cfReturned,
                  ccReturned, epcHist >>

Next ==
  \/ ReadArgv \/ OpenFile \/ InitGlobals \/ GetData \/ CallCheckFile
  \/ ScanLine \/ ScanEOF \/ MatchBrackets \/ MatchParens \/ Totals
  \/ RateParens \/ RateBrackets \/ ReturnCheckFile \/ CloseFile
  \/ CheckCompile \/ SyntaxScore \/ UpdateEPC \/ UpdateLDScore

Spec == Init /\ [][Next]_vars

(***************************************************************************)
(* A second call of checkFile in the same process, as line 129 makes it:   *)
(* the caller passes lists (the module-level ones, or new empty ones), and *)
(* checkFile reads the module-level f whatever it is passed.               *)
(***************************************************************************)
RecallCheckFile ==
  /\ pc = "close"
  /\ Len(results) = 1
  /\ \E fresh \in BOOLEAN :
       IF fresh
       THEN /\ oparen' = << >> /\ obracket' = << >>
            /\ cparen' = << >> /\ cbracket' = << >>
       ELSE UNCHANGED stacks
  /\ EnterCheckFile
  /\ inOP' = Len(oparen') /\ inCP' = Len(cparen')
  /\ inOB' = Len(obracket') /\ inCB' = Len(cbracket')
  /\ UNCHANGED << err, errAt, f, data, db, cfLocals, score, cEPC,
                  syntaxScore, handed, results, db0, cfReturned, ccReturned,
                  epcHist >>

NextRecall == Next \/ RecallCheckFile

SpecRecall == Init /\ [][NextRecall]_vars

(***************************************************************************)
(* updateEPC applied again and again to one record.                        *)
(***************************************************************************)
InitEPC ==
  /\ InitCommon
  /\ pc = "epc"
  /\ data \in Records
  /\ db = data /\ db0 = data
  /\ E0 = data.compileTE /\ T0 = data.compileT

Accumulate ==
  /\ pc = "epc"
  /\ nEPC < MaxCalls
  /\ \E e \in 0..MaxErr : CallUpdateEPC(e)
  /\ UNCHANGED << pc, err, errAt, f, stacks, db, cfLocals, score, cEPC,
                  syntaxScore, handed, trace, counts, inCounts, results, db0,
                  cfReturned, ccReturned >>

NextEPC == Accumulate

SpecEPC == InitEPC /\ [][NextEPC]_vars

(***************************************************************************)
(* Properties.                                                             *)
(***************************************************************************)
\* positions inside checkFile after the loops / the totals are computed
AfterMatchB == { "matchP", "totals", "rateP", "rateB", "return" }
AfterMatchP == { "totals", "rateP", "rateB", "return" }
AfterTotals == { "rateP", "rateB", "return" }

\* the call in progress started with empty lists
StartedEmpty == inOP = 0 /\ inCP = 0 /\ inOB = 0 /\ inCB = 0

\* the first checkFile call is over (returned or raised)
FirstCallOver == Len(results) >= 1

\* C1 (as claimed): when a family has no token in the input, the call ends
\* without raising and the family's rate is 0.0; on empty input the result
\* is (0.0, 0.0).
CX_C1 ==
  FirstCallOver =>
    /\ (nOP + nCP = 0 => results[1].ok /\ results[1].val[1] = Zero)
    /\ (nOB + nCB = 0 => results[1].ok /\ results[1].val[2] = Zero)

\* C2: started with empty lists on an input of o opens and c closes of a
\* family, the matching loop leaves successfulPairs = min(o, c) and
\* leftover = |o - c|.
Thm_C2 ==
  StartedEmpty =>
    /\ (pc \in AfterMatchB =>
          bSP = Min(nOB, nCB) /\ bFP = Abs(nOB - nCB))
    /\ (pc \in AfterMatchP =>
          pSP = Min(nOP, nCP) /\ pFP = Abs(nOP - nCP))

Wit_C2 ==
  /\ pc = "totals" /\ StartedEmpty
  /\ nOP = 1 /\ nCP = 3 /\ pSP = 1 /\ pFP = 2
  /\ nOB = 2 /\ nCB = 0 /\ bSP = 0 /\ bFP = 2

IsRatio(r, a, b) == r # None /\ r[2] > 0 /\ r[1] * b = a * r[2]

Thm_C5 ==
  (FirstCallOver /\ nOP = nCP /\ nOP >= 1 /\ nOB = nCB /\ nOB >= 1) =>
    /\ results[1].ok
    /\ results[1].val = << One, One >>
    /\ (Len(results) = 1 => score = << One, One >>)

\* "(){}"
Wit_C5 ==
  /\ Len(results) = 1 /\ pc = "close"
  /\ nOP = 1 /\ nCP = 1 /\ nOB = 1 /\ nCB = 1
  /\ score = << One, One >>

\* C6 (as claimed): a second call of checkFile in the same process on the
\* same input ends as the first call did, with the same pair of rates.
CX_C6 == Len(results) = 2 => results[2] = results[1]

\* C7: after n >= 1 updateEPC calls with non-negative error counts e1..en on
\* a record that held (E0, T0), compileT = T0 + n >= 1, compileTE = E0 +
\* e1 + ... + en and EPC = compileTE / compileT.
Thm_C7 ==
  nEPC >= 1 =>
    /\ data.compileT = T0 + nEPC /\ data.compileT >= 1
    /\ data.compileTE = E0 + sumE
    /\ IsRatio(data.EPC, data.compileTE, data.compileT)

\* from (0, 0): 5 gives (5, 1, 5.0), then 3 gives (8, 2, 4.0)
Wit_C7 ==
  /\ E0 = 0 /\ T0 = 0 /\ nEPC = 2 /\ sumE = 8 /\ lastErrArg = 3
  /\ data.compileTE = 8 /\ data.compileT = 2 /\ data.EPC = << 4, 1 >>

\* C8 (as claimed): an updateEPC call with a negative error count fails
\* with InvalidArgument and leaves the record as it was.
CX_C8 ==
  [][ (nEPC' = nEPC + 1 /\ lastErrArg' < 0) =>
        (data' = data /\ err' = "InvalidArgument") ]_vars

\* the fields of the record other than the compile-error ones
ScoreFields(rec) == DOMAIN rec \ { "compileTE", "compileT", "EPC" }

\* C9 (as claimed): the record handed to dbq.updateLDScore carries the
\* weighted syntax score.
CX_C9 ==
  handed # None => \E k \in ScoreFields(handed) : handed[k] = syntaxScore

Order == << "open", "getCurrentLDValues", "checkFile", "checkCompile",
            "updateEPC", "updateLDScore" >>

IsPrefix(s, t) == Len(s) <= Len(t) /\ s = SubSeq(t, 1, Len(s))

Persisted == \E i \in DOMAIN trace : trace[i] = "updateLDScore"

\* C10: the steps of a run happen in the order open, read record, checkFile,
\* checkCompile, updateEPC, dbq.updateLDScore; the last is called at most
\* once and only after checkFile and checkCompile returned normally; a run
\* ended by a failure never updated the stored record.
Thm_C10 ==
  /\ IsPrefix(trace, Order)
  /\ (Persisted => cfReturned /\ ccReturned /\ err = "none")
  /\ (~Persisted => db = db0 /\ handed = None)
  /\ (pc = "failed" => ~Persisted /\ db = db0)

Wit_C10 ==
  /\ pc = "failed" /\ errAt = "checkCompile" /\ cfReturned
  /\ trace = SubSeq(Order, 1, 4) /\ db = db0

====
